---- MODULE Spec2Model ----
(***************************************************************************)
(* generate_ellipsis_wave.py: the three-dot "ellipsis" wave animation.     *)
(*                                                                         *)
(* The script samples a piecewise-linear opacity waveform in Python floats *)
(* (IEEE-754 binary64), truncates it to an 8-bit alpha, and assembles the  *)
(* frames into an animated PNG through temporary frame files.              *)
(*                                                                         *)
(* Floats are modelled exactly: a float is a record [m, e] standing for    *)
(* m * 2^e with m a natural number of exactly 53 bits (or zero), and every *)
(* arithmetic operation computes the exact result and rounds it to the     *)
(* nearest float, ties to even, as the hardware does.  The significands do *)
(* not fit the model checker's integers, so naturals are little-endian     *)
(* sequences of 15-bit limbs.  Every float in this program is zero or lies *)
(* between 2^-70 and 2^10, so subnormals, infinities and NaN never arise   *)
(* and are not modelled; all floats here are non-negative.                 *)
(***************************************************************************)
EXTENDS Integers, Sequences, FiniteSets, TLC

(***************************************************************************)
(* F at the value of its arguments: each argument is computed once, and F  *)
(* is applied to the values.                                               *)
(***************************************************************************)
At1(F(_), a) == CHOOSE r \in {F(x) : x \in {a}} : TRUE
At2(F(_, _), a, b) == CHOOSE r \in {F(x, y) : x \in {a}, y \in {b}} : TRUE

(***************************************************************************)
(* Natural numbers of any size: <<l1, ..., lk>> is the sum of              *)
(* l_j * Base^(j-1), without high zero limbs; <<>> is zero.                *)
(***************************************************************************)
Base == 2^15

Pow2(k) == 2^k

RECURSIVE IntBitLen(_)
IntBitLen(n) == IF n = 0 THEN 0 ELSE 1 + IntBitLen(n \div 2)

LimbBits == IntBitLen(Base) - 1

Limb(a, j) == IF j <= Len(a) THEN a[j] ELSE 0

\* the index of the highest limb of s that is not zero, among the first j
RECURSIVE TopLimb(_, _)
TopLimb(s, j) == IF j = 0 THEN 0 ELSE IF s[j] # 0 THEN j ELSE TopLimb(s, j - 1)

BNorm(s) == At1(LAMBDA x : SubSeq(x, 1, TopLimb(x, Len(x))), s)

RECURSIVE BFromInt(_)
BFromInt(n) == IF n = 0 THEN <<>> ELSE <<n % Base>> \o BFromInt(n \div Base)

RECURSIVE BToIntAt(_, _)
BToIntAt(s, j) == IF j > Len(s) THEN 0 ELSE s[j] + Base * BToIntAt(s, j + 1)

BToInt(s) == At1(LAMBDA x : BToIntAt(x, 1), s)

\* -1, 0 or 1 as a < b, a = b or a > b
RECURSIVE BCmpAt(_, _, _)
BCmpAt(a, b, j) ==
    IF j = 0 THEN 0
    ELSE IF a[j] < b[j] THEN -1
    ELSE IF a[j] > b[j] THEN 1
    ELSE BCmpAt(a, b, j - 1)

BCmp(a, b) ==
    At2(LAMBDA x, y : IF Len(x) < Len(y) THEN -1
                      ELSE IF Len(x) > Len(y) THEN 1
                      ELSE BCmpAt(x, y, Len(x)), a, b)

RECURSIVE BAddAt(_, _, _, _)
BAddAt(a, b, j, c) ==
    IF j > Len(a) /\ j > Len(b) THEN (IF c = 0 THEN <<>> ELSE <<c>>)
    ELSE LET s == Limb(a, j) + Limb(b, j) + c
         IN  <<s % Base>> \o BAddAt(a, b, j + 1, s \div Base)

BAdd(a, b) == At2(LAMBDA x, y : BAddAt(x, y, 1, 0), a, b)

\* a - b for a >= b
RECURSIVE BSubAt(_, _, _, _)
BSubAt(a, b, j, c) ==
    IF j > Len(a) THEN <<>>
    ELSE LET d == a[j] - Limb(b, j) - c
         IN  IF d < 0 THEN <<d + Base>> \o BSubAt(a, b, j + 1, 1)
             ELSE <<d>> \o BSubAt(a, b, j + 1, 0)

BSub(a, b) == At2(LAMBDA x, y : BNorm(BSubAt(x, y, 1, 0)), a, b)

\* a * k for 0 <= k <= Base
RECURSIVE BMulSmallAt(_, _, _, _)
BMulSmallAt(a, k, j, c) ==
    IF j > Len(a) THEN (IF c = 0 THEN <<>> ELSE <<c>>)
    ELSE LET p == a[j] * k + c
         IN  <<p % Base>> \o BMulSmallAt(a, k, j + 1, p \div Base)

BMulSmall(a, k) == At2(LAMBDA x, y : BNorm(BMulSmallAt(x, y, 1, 0)), a, k)

\* a * Base
BUp(a) == At1(LAMBDA x : IF x = <<>> THEN <<>> ELSE <<0>> \o x, a)

\* a times the limbs j and above of b
RECURSIVE BMulAt(_, _, _)
BMulAt(a, b, j) ==
    IF j > Len(b) THEN <<>>
    ELSE BAdd(BMulSmall(a, b[j]), BUp(BMulAt(a, b, j + 1)))

BMul(a, b) == At2(LAMBDA x, y : BMulAt(x, y, 1), a, b)

Zeros(n) == [j \in 1..n |-> 0]

\* a * 2^s
BShl(a, s) ==
    At2(LAMBDA x, y : IF x = <<>> THEN <<>>
                      ELSE Zeros(y \div LimbBits) \o BMulSmall(x, Pow2(y % LimbBits)), a, s)

\* floor(a / k) for 0 < k <= Base, most significant limb first
RECURSIVE BDivSmallAt(_, _, _, _)
BDivSmallAt(a, k, j, r) ==
    IF j = 0 THEN <<>>
    ELSE LET x == r * Base + a[j]
         IN  BDivSmallAt(a, k, j - 1, x % k) \o <<x \div k>>

BDivSmall(a, k) == At2(LAMBDA x, y : BNorm(BDivSmallAt(x, y, Len(x), 0)), a, k)

\* floor(a / 2^s)
BShr(a, s) ==
    At2(LAMBDA x, y : IF y \div LimbBits >= Len(x) THEN <<>>
                      ELSE BDivSmall(SubSeq(x, y \div LimbBits + 1, Len(x)),
                                     Pow2(y % LimbBits)), a, s)

BBitLen(a) ==
    At1(LAMBDA x : IF x = <<>> THEN 0
                   ELSE (Len(x) - 1) * LimbBits + IntBitLen(x[Len(x)]), a)

BBit(a, j) ==
    At2(LAMBDA x, y : IF y \div LimbBits >= Len(x) THEN 0
                      ELSE (x[y \div LimbBits + 1] \div Pow2(y % LimbBits)) % 2, a, j)

\* the largest d < Base with b * d <= r, for r < b * Base: its bits from bit j down
RECURSIVE BDigit(_, _, _, _)
BDigit(r, b, d, j) ==
    IF j < 0 THEN d
    ELSE IF BCmp(BMulSmall(b, d + Pow2(j)), r) <= 0
    THEN BDigit(r, b, d + Pow2(j), j - 1)
    ELSE BDigit(r, b, d, j - 1)

\* one limb of a long division by b: limb is the next limb of the dividend and
\* above is <<quotient, remainder>> of the limbs above it
BDivStep(limb, b, above) ==
    At1(LAMBDA r :
          At1(LAMBDA d : <<<<d>> \o above[1], BSub(r, BMulSmall(b, d))>>,
              BDigit(r, b, 0, LimbBits - 1)),
        BNorm(<<limb>> \o above[2]))

\* <<floor(x / b), x mod b>> for b > 0 and x the limbs j and above of a
RECURSIVE BDivModAt(_, _, _)
BDivModAt(a, b, j) ==
    IF j > Len(a) THEN <<<<>>, <<>>>>
    ELSE At1(LAMBDA above : BDivStep(a[j], b, above), BDivModAt(a, b, j + 1))

BDivMod(a, b) ==
    At2(LAMBDA x, y : At1(LAMBDA qr : <<BNorm(qr[1]), qr[2]>>, BDivModAt(x, y, 1)), a, b)

(***************************************************************************)
(* Python floats.  [m |-> M, e |-> E] is M * 2^E, with M of exactly        *)
(* MantBits bits, or zero with E = 0, so that equal floats are equal       *)
(* records.                                                                *)
(***************************************************************************)
MantBits == 53

FZero == [m |-> <<>>, e |-> 0]

\* q or q + 1, whichever is nearer to n / 2^s, the even one on a tie; q is
\* floor(n / 2^s)
Nearest(n, q, s) ==
    At1(LAMBDA c : IF c > 0 \/ (c = 0 /\ BBit(q, 0) = 1) THEN BAdd(q, <<1>>) ELSE q,
        BCmp(BSub(n, BShl(q, s)), BShl(<<1>>, s - 1)))

\* the float q * 2^e for q of MantBits bits, or of one more after rounding up
Pack(q, e) ==
    IF BBitLen(q) > MantBits THEN [m |-> BShr(q, 1), e |-> e + 1] ELSE [m |-> q, e |-> e]

\* the float nearest to n * 2^e, ties to the even significand
FRound(n, e) ==
    At2(LAMBDA x, y :
          At1(LAMBDA len :
                IF len = 0 THEN FZero
                ELSE IF len <= MantBits
                THEN [m |-> BShl(x, MantBits - len), e |-> y - (MantBits - len)]
                ELSE At1(LAMBDA q : At1(LAMBDA q2 : Pack(q2, y + (len - MantBits)),
                                        Nearest(x, q, len - MantBits)),
                         BShr(x, len - MantBits)),
              BBitLen(x)), n, e)

\* floor(n * 2^k / d) with one more low bit that is set when the division left a
\* remainder: enough to round n / d correctly once the quotient is long enough
Sticky(n, k, d) ==
    At1(LAMBDA qr : BAdd(BMulSmall(qr[1], 2), IF qr[2] = <<>> THEN <<>> ELSE <<1>>),
        BDivMod(BShl(n, k), d))

\* n / d correctly rounded, for integers n >= 0 and d > 0: int / int, and what
\* reading a decimal literal does (1.5 is 15 / 10)
FromRatio(n, d) ==
    At1(LAMBDA k : FRound(Sticky(BFromInt(n), k, BFromInt(d)), 0 - k - 1),
        MantBits + 2 + IntBitLen(d))

FromInt(n) == FromRatio(n, 1)

\* the significands of a and b over their common exponent Emin(a, b)
Emin(a, b) ==
    IF a.m = <<>> THEN b.e ELSE IF b.m = <<>> THEN a.e
    ELSE IF a.e < b.e THEN a.e ELSE b.e
Aligned(a, b) == BShl(a.m, a.e - Emin(a, b))

FCmp(a, b) == At2(LAMBDA x, y : BCmp(Aligned(x, y), Aligned(y, x)), a, b)
FLt(a, b) == FCmp(a, b) < 0
FLe(a, b) == FCmp(a, b) <= 0

FAdd(a, b) ==
    At2(LAMBDA x, y : FRound(BAdd(Aligned(x, y), Aligned(y, x)), Emin(x, y)), a, b)

\* a - b for a >= b
FSub(a, b) ==
    At2(LAMBDA x, y : FRound(BSub(Aligned(x, y), Aligned(y, x)), Emin(x, y)), a, b)

FMul(a, b) == At2(LAMBDA x, y : FRound(BMul(x.m, y.m), x.e + y.e), a, b)

\* a / b for b > 0
FDiv(a, b) ==
    At2(LAMBDA x, y : IF x.m = <<>> THEN FZero
                      ELSE FRound(Sticky(x.m, MantBits + 2, y.m),
                                  x.e - y.e - (MantBits + 2) - 1), a, b)

\* a % b for a >= 0 and b > 0: fmod, which is exact
FMod(a, b) ==
    At2(LAMBDA x, y : FRound(BDivMod(Aligned(x, y), Aligned(y, x))[2], Emin(x, y)), a, b)

\* int(a): truncation towards zero
FInt(a) ==
    At1(LAMBDA x : BToInt(IF x.e >= 0 THEN BShl(x.m, x.e) ELSE BShr(x.m, 0 - x.e)), a)

(***************************************************************************)
(* Animation parameters                                                    *)
(***************************************************************************)
DOT_SIZE == 30
DOT_SPACING == 26
FPS == 30
CYCLE_DURATION == FromRatio(15, 10)

\* the fade wave running right to left
FADE_START_right_to_left ==
    (0 :> FromRatio(5, 10)) @@ (1 :> FromRatio(25, 100)) @@ (2 :> FromRatio(0, 10))
FADE_START == (0 :> FromRatio(0, 10)) @@ (1 :> FromRatio(25, 100)) @@ (2 :> FromRatio(5, 10))
\* the brighten wave starting a quarter of a second early
BRIGHTEN_START_early ==
    (0 :> FromRatio(5, 10)) @@ (1 :> FromRatio(75, 100)) @@ (2 :> FromRatio(10, 10))
BRIGHTEN_START == (0 :> FromRatio(75, 100)) @@ (1 :> FromRatio(10, 10)) @@ (2 :> FromRatio(125, 100))
\* a transition of 0.3 s
TRANSITION_TIME_slow == FromRatio(3, 10)
TRANSITION_TIME == FromRatio(1, 10)

NUM_DOTS == 3
TOTAL_WIDTH == (DOT_SIZE * NUM_DOTS) + (DOT_SPACING * (NUM_DOTS - 1))
PADDING == 2
WIDTH == TOTAL_WIDTH + (PADDING * 2)
HEIGHT == DOT_SIZE + (PADDING * 2)
TOTAL_FRAMES == FInt(FMul(CYCLE_DURATION, FromInt(FPS)))

Dots == 0..(NUM_DOTS - 1)

(***************************************************************************)
(* The opacity waveform                                                    *)
(***************************************************************************)
\* get_opacity_at_time with the brightening measured from the fade time
get_opacity_at_time_from_fade(dot_index, current_time) ==
    LET fade_time == FADE_START[dot_index]
        brighten_time == BRIGHTEN_START[dot_index]
    IN  IF FLt(current_time, fade_time) THEN FromRatio(10, 10)
        ELSE IF FLt(current_time, FAdd(fade_time, TRANSITION_TIME))
        THEN LET progress == FDiv(FSub(current_time, fade_time), TRANSITION_TIME)
             IN  FSub(FromRatio(10, 10), FMul(FromRatio(5, 10), progress))
        ELSE IF FLt(current_time, brighten_time) THEN FromRatio(5, 10)
        ELSE IF FLt(current_time, FAdd(brighten_time, TRANSITION_TIME))
        THEN LET progress == FDiv(FSub(current_time, fade_time), TRANSITION_TIME)
             IN  FAdd(FromRatio(5, 10), FMul(FromRatio(5, 10), progress))
        ELSE FromRatio(10, 10)

get_opacity_at_time(dot_index, current_time) ==
    LET fade_time == FADE_START[dot_index]
        brighten_time == BRIGHTEN_START[dot_index]
    IN  IF FLt(current_time, fade_time) THEN FromRatio(10, 10)
        ELSE IF FLt(current_time, FAdd(fade_time, TRANSITION_TIME))
        THEN LET progress == FDiv(FSub(current_time, fade_time), TRANSITION_TIME)
             IN  FSub(FromRatio(10, 10), FMul(FromRatio(5, 10), progress))
        ELSE IF FLt(current_time, brighten_time) THEN FromRatio(5, 10)
        ELSE IF FLt(current_time, FAdd(brighten_time, TRANSITION_TIME))
        THEN LET progress == FDiv(FSub(current_time, brighten_time), TRANSITION_TIME)
             IN  FAdd(FromRatio(5, 10), FMul(FromRatio(5, 10), progress))
        ELSE FromRatio(10, 10)

\* current_time of create_frame
frame_time(frame_num) == FMod(FromRatio(frame_num, FPS), CYCLE_DURATION)

\* alpha scaled by 256
alpha_of_256(opacity) == FInt(FMul(opacity, FromInt(256)))

\* alpha of create_frame
alpha_of(opacity) == FInt(FMul(opacity, FromInt(255)))

\* what create_frame computes for its dots: the time of the frame, and the opacity
\* and the alpha of each dot
render(frame_num) ==
    At1(LAMBDA current_time :
          At1(LAMBDA opacity :
                [frame_num |-> frame_num,
                 current_time |-> current_time,
                 opacity |-> opacity,
                 alpha |-> [i \in Dots |-> alpha_of(opacity[i])]],
              [i \in Dots |-> get_opacity_at_time(i, current_time)]),
        frame_time(frame_num))

\* the image create_frame draws from what it computed: a transparent
\* WIDTH x HEIGHT canvas with one ellipse per dot
image(dots) ==
    [size |-> <<WIDTH, HEIGHT>>,
     ellipse |-> [i \in Dots |->
        LET x == PADDING + (i * (DOT_SIZE + DOT_SPACING))
            y == PADDING
        IN  [box |-> <<x, y, x + DOT_SIZE, y + DOT_SIZE>>,
             fill |-> <<0, 0, 0, dots.alpha[i]>>]]]

create_frame(frame_num) == At1(image, render(frame_num))

(***************************************************************************)
(* File names.  A path is a sequence of strings; the temporary frame files *)
(* are named by f'tmp\\frame_{i:04d}.png'.                                 *)
(***************************************************************************)
Digit(d) == <<"0", "1", "2", "3", "4", "5", "6", "7", "8", "9">>[d + 1]

RECURSIVE Decimal(_)
Decimal(n) == IF n < 10 THEN <<Digit(n)>> ELSE Decimal(n \div 10) \o <<Digit(n % 10)>>

ZeroPad(s, w) == IF Len(s) >= w THEN s ELSE [j \in 1..(w - Len(s)) |-> "0"] \o s

temp_path(i) == <<"tmp\\frame_">> \o ZeroPad(Decimal(i), 4) \o <<".png">>

default_output == <<"ellipsis_animation.png">>

\* sys.argv[1:]: no argument, a file name of the user's, or a name that is also
\* the name of a temporary frame file
MaxArgFrame == 1
Argv == {<<>>, <<<<"wave.png">>>>} \cup {<<temp_path(k)>> : k \in 0..(MaxArgFrame - 1)}

key_times ==
    <<FromRatio(0, 10), FromRatio(25, 100), FromRatio(5, 10), FromRatio(75, 100),
      FromRatio(10, 10), FromRatio(125, 100), FromRatio(15, 10)>>

frame_duration == FInt(FromRatio(1000, FPS))

\* the largest frame number create_frame is asked for in SpecLoop
MaxFrameNum == 40

VARIABLES
    pc,           \* where the script is
    dirs,         \* the directories that exist
    fs,           \* the files that exist: path -> content
    output_file,  \* output_path of generate_apng
    i,            \* the frame loop's index
    frame_files,  \* the list of temporary frame files
    drawn,        \* what create_frame computed, call by call
    key_rows,     \* the rows of the key moments table printed so far
    apng_obj,     \* the frames appended to the APNG: [png, delay]
    pos,          \* how many elements the loop over frame_files has handled
    io,           \* the file system calls made so far, in order
    cf_pc,        \* SpecLoop: where the two calls of create_frame are
    cf_frame_num, \* SpecLoop: the frame number of the first call
    cf_first,     \* SpecLoop: create_frame(cf_frame_num)
    cf_second     \* SpecLoop: create_frame(cf_frame_num + TOTAL_FRAMES)

script_vars == <<pc, dirs, fs, output_file, i, frame_files, drawn, key_rows, apng_obj, pos, io>>
cf_vars == <<cf_pc, cf_frame_num, cf_first, cf_second>>
vars == <<script_vars, cf_vars>>

NoImage == [size |-> <<0, 0>>, ellipse |-> <<>>]

ScriptInit ==
    /\ pc = "main"
    /\ dirs = {}
    /\ fs = <<>>
    /\ output_file = default_output
    /\ i = 0
    /\ frame_files = <<>>
    /\ drawn = <<>>
    /\ key_rows = <<>>
    /\ apng_obj = <<>>
    /\ pos = 0
    /\ io = <<>>

Init ==
    /\ ScriptInit
    /\ cf_pc = "idle"
    /\ cf_frame_num = 0
    /\ cf_first = NoImage
    /\ cf_second = NoImage

\* the file system after writing content to path
Write(files, path, content) ==
    [p \in (DOMAIN files) \cup {path} |-> IF p = path THEN content ELSE files[p]]

\* the file system after removing path
Remove(files, path) == [p \in (DOMAIN files) \ {path} |-> files[p]]

\* if __name__ == '__main__'
Main ==
    /\ pc = "main"
    /\ \E argv \in Argv :
          output_file' = IF Len(argv) > 0 THEN argv[1] ELSE default_output
    /\ dirs' = dirs \cup {"tmp"}
    /\ i' = 0
    /\ frame_files' = <<>>
    /\ pc' = IF TOTAL_FRAMES > 0 THEN "frames" ELSE "key"
    /\ UNCHANGED <<fs, drawn, key_rows, apng_obj, pos, io, cf_vars>>

\* one pass of the frame loop of generate_apng
RenderFrame ==
    /\ pc = "frames"
    /\ i < TOTAL_FRAMES
    /\ \E dots \in {render(i)} :
          LET frame == image(dots)
              temp_file == temp_path(i)
          IN  /\ drawn' = Append(drawn, dots)
              /\ fs' = Write(fs, temp_file, frame)
              /\ io' = Append(io, [op |-> "save", path |-> temp_file])
              /\ frame_files' = Append(frame_files, temp_file)
    /\ i' = i + 1
    /\ pc' = IF i + 1 < TOTAL_FRAMES THEN "frames" ELSE "key"
    /\ UNCHANGED <<dirs, output_file, key_rows, apng_obj, pos, cf_vars>>

\* one row of the key moments table
KeyMoment ==
    /\ pc = "key"
    /\ pos < Len(key_times)
    /\ LET t == key_times[pos + 1]
       IN  key_rows' = Append(key_rows,
              [t |-> t, opacities |-> [d \in Dots |-> get_opacity_at_time(d, t)]])
    /\ pos' = IF pos + 1 < Len(key_times) THEN pos + 1 ELSE 0
    /\ pc' = IF pos + 1 < Len(key_times) THEN "key"
             ELSE IF Len(frame_files) > 0 THEN "append" ELSE "save"
    /\ UNCHANGED <<dirs, fs, output_file, i, frame_files, drawn, apng_obj, io, cf_vars>>

\* apng_obj.append_file(frame_path, delay=frame_duration)
AppendFile ==
    /\ pc = "append"
    /\ pos < Len(frame_files)
    /\ LET frame_path == frame_files[pos + 1]
       IN  /\ frame_path \in DOMAIN fs
           /\ apng_obj' = Append(apng_obj, [png |-> fs[frame_path], delay |-> frame_duration])
           /\ io' = Append(io, [op |-> "read", path |-> frame_path])
    /\ pos' = pos + 1
    /\ pc' = IF pos + 1 < Len(frame_files) THEN "append" ELSE "save"
    /\ UNCHANGED <<dirs, fs, output_file, i, frame_files, drawn, key_rows, cf_vars>>

\* apng_obj.save(output_path) and os.path.getsize(output_path)
Save ==
    /\ pc = "save"
    /\ fs' = Write(fs, output_file, apng_obj)
    /\ io' = Append(io, [op |-> "save", path |-> output_file])
    /\ pos' = 0
    /\ pc' = IF Len(frame_files) > 0 THEN "cleanup" ELSE "done"
    /\ UNCHANGED <<dirs, output_file, i, frame_files, drawn, key_rows, apng_obj, cf_vars>>

\* os.remove(f)
Cleanup ==
    /\ pc = "cleanup"
    /\ pos < Len(frame_files)
    /\ LET f == frame_files[pos + 1]
       IN  /\ f \in DOMAIN fs
           /\ fs' = Remove(fs, f)
           /\ io' = Append(io, [op |-> "remove", path |-> f])
    /\ pos' = pos + 1
    /\ pc' = IF pos + 1 < Len(frame_files) THEN "cleanup" ELSE "done"
    /\ UNCHANGED <<dirs, output_file, i, frame_files, drawn, key_rows, apng_obj, cf_vars>>

Next == Main \/ RenderFrame \/ KeyMoment \/ AppendFile \/ Save \/ Cleanup

Spec == Init /\ [][Next]_vars

(***************************************************************************)
(* SpecLoop: create_frame called for a frame number and for the frame one  *)
(* cycle later.                                                            *)
(***************************************************************************)
LoopInit ==
    /\ ScriptInit
    /\ cf_pc = "first"
    /\ cf_frame_num \in 0..MaxFrameNum
    /\ cf_first = NoImage
    /\ cf_second = NoImage

CreateFirst ==
    /\ cf_pc = "first"
    /\ cf_first' = create_frame(cf_frame_num)
    /\ cf_pc' = "second"
    /\ UNCHANGED <<cf_frame_num, cf_second, script_vars>>

CreateSecond ==
    /\ cf_pc = "second"
    /\ cf_second' = create_frame(cf_frame_num + TOTAL_FRAMES)
    /\ cf_pc' = "done"
    /\ UNCHANGED <<cf_frame_num, cf_first, script_vars>>

LoopNext == CreateFirst \/ CreateSecond

SpecLoop == LoopInit /\ [][LoopNext]_vars

(***************************************************************************)
(* The documented times, in exact arithmetic: a tick is 1/300 s, so frame  *)
(* n is drawn at tick 10 * n and a hundredth of a second is 3 ticks.       *)
(***************************************************************************)
One == FromRatio(1, 1)
Half == FromRatio(1, 2)
Vec(a, b, c) == (0 :> a) @@ (1 :> b) @@ (2 :> c)

FrameTick(n) == 10 * n
FadeTick == Vec(0, 75, 150)
BrightenTick == Vec(225, 300, 375)
TransitionTicks == 3 * 10

Drawn == 1..Len(drawn)
AllDrawn == Len(drawn) = 45

\* C1: at the key times 0.00, 0.25, 0.50, 0.75, 1.00, 1.25 and 1.50 s the opacities
\* of dots 0, 1, 2 are [1,1,1], [.5,1,1], [.5,.5,1], [.5,.5,.5], [1,.5,.5],
\* [1,1,.5] and [1,1,1]
C1_Expected ==
    <<Vec(One, One, One), Vec(Half, One, One), Vec(Half, Half, One),
      Vec(Half, Half, Half), Vec(One, Half, Half), Vec(One, One, Half),
      Vec(One, One, One)>>
C1_KeyTimes == <<0, 25, 50, 75, 100, 125, 150>>
C1_KeyMoments ==
    /\ \A k \in 1..Len(key_rows) :
          /\ key_rows[k].t = FromRatio(C1_KeyTimes[k], 100)
          /\ key_rows[k].opacities = C1_Expected[k]
    /\ pc \in {"append", "save", "cleanup", "done"} => Len(key_rows) = 7
C1_Witness ==
    /\ Len(key_rows) = 7
    /\ key_rows[4].opacities = Vec(Half, Half, Half)
    /\ key_rows[7].opacities = Vec(One, One, One)

\* C2: over the frames 0..44 in order each dot makes one fade and one brighten:
\* 1.0 up to its fade start, never increasing until it is 0.5, 0.5 from the end of
\* its fade to its brighten start, never decreasing after that, 1.0 from the end of
\* its brightening on; every dot is at 1.0 in frames 0 and 44
C2_OneFadeOneBrighten ==
    \A k \in Drawn : \A d \in Dots :
       LET n == k - 1
           op == drawn[k].opacity[d]
       IN  /\ drawn[k].frame_num = n
           /\ FrameTick(n) <= FadeTick[d] => op = One
           /\ (k > 1 /\ FrameTick(n) <= BrightenTick[d])
                 => FLe(op, drawn[k - 1].opacity[d])
           /\ (FadeTick[d] + TransitionTicks <= FrameTick(n) /\ FrameTick(n) <= BrightenTick[d])
                 => op = Half
           /\ (k > 1 /\ FrameTick(n - 1) >= BrightenTick[d])
                 => FLe(drawn[k - 1].opacity[d], op)
           /\ FrameTick(n) >= BrightenTick[d] + TransitionTicks => op = One
           /\ n \in {0, 44} => op = One
C2_Witness ==
    /\ AllDrawn
    /\ \A d \in Dots :
          /\ \E k \in Drawn : FLt(Half, drawn[k].opacity[d]) /\ FLt(drawn[k].opacity[d], One)
                              /\ FrameTick(k - 1) < BrightenTick[d]
          /\ \E k \in Drawn : FLt(Half, drawn[k].opacity[d]) /\ FLt(drawn[k].opacity[d], One)
                              /\ FrameTick(k - 1) > BrightenTick[d]

\* C3: both waves run left to right: in every frame before 0.75 s the opacities
\* are dot 0 <= dot 1 <= dot 2, and in every frame from 0.75 s to 1.5 s they are
\* dot 0 >= dot 1 >= dot 2
C3_LeftToRight ==
    \A k \in Drawn :
       LET op == drawn[k].opacity
       IN  /\ FrameTick(k - 1) < 225 => FLe(op[0], op[1]) /\ FLe(op[1], op[2])
           /\ (225 <= FrameTick(k - 1) /\ FrameTick(k - 1) < 450)
                 => FLe(op[1], op[0]) /\ FLe(op[2], op[1])
C3_Witness ==
    /\ AllDrawn
    /\ \E k \in Drawn : FLt(drawn[k].opacity[0], drawn[k].opacity[1])
                        /\ FLt(drawn[k].opacity[1], drawn[k].opacity[2])
    /\ \E k \in Drawn : FLt(drawn[k].opacity[1], drawn[k].opacity[0])
                        /\ FLt(drawn[k].opacity[2], drawn[k].opacity[1])

\* C4: the frames 0..44 hold a frame in which all three dots are at 0.5 (alpha
\* 127), and every such frame lies after the last dot has finished fading and not
\* after the first dot starts to brighten
AllAtMinimum(k) == \A d \in Dots : drawn[k].opacity[d] = Half /\ drawn[k].alpha[d] = 127
C4_AllReachMinimum ==
    /\ AllDrawn => \E k \in Drawn : AllAtMinimum(k)
    /\ \A k \in Drawn :
          (\A d \in Dots : drawn[k].opacity[d] = Half \/ drawn[k].alpha[d] = 127)
             => /\ AllAtMinimum(k)
                /\ FrameTick(k - 1) >= FadeTick[2] + TransitionTicks
                /\ FrameTick(k - 1) <= BrightenTick[0]
C4_Witness == AllDrawn /\ \E k \in Drawn : AllAtMinimum(k)

\* C5: the animation has 45 frames, every frame carries the same delay, and the
\* delays add up to the cycle duration, 1500 ms
RECURSIVE TotalDelay(_, _)
TotalDelay(frames, k) == IF k = 0 THEN 0 ELSE frames[k].delay + TotalDelay(frames, k - 1)
C5_FramesFillTheCycle ==
    pc \in {"cleanup", "done"} =>
       /\ Len(apng_obj) = 45
       /\ Len(apng_obj) = TOTAL_FRAMES
       /\ \A k \in 1..Len(apng_obj) : apng_obj[k].delay = apng_obj[1].delay
       /\ TotalDelay(apng_obj, Len(apng_obj)) = FInt(FMul(CYCLE_DURATION, FromInt(1000)))

\* C6: create_frame(frame_num) and create_frame(frame_num + 45) draw the same
\* alpha for every dot
C6_SameOneCycleLater ==
    cf_pc = "done" =>
       \A d \in Dots : cf_second.ellipse[d].fill = cf_first.ellipse[d].fill

\* C7: in every frame 0..44 every dot's opacity lies in [0.5, 1.0] and the alpha
\* drawn for it lies in 127..255
C7_NeverBelowMinimum ==
    /\ \A k \in Drawn : \A d \in Dots :
          /\ FLe(Half, drawn[k].opacity[d])
          /\ FLe(drawn[k].opacity[d], One)
          /\ drawn[k].alpha[d] \in 127..255
    /\ \A k \in 1..Len(frame_files) : \A d \in Dots :
          frame_files[k] \in DOMAIN fs /\ pc \in {"frames", "key", "append", "save"}
             => fs[frame_files[k]].ellipse[d].fill[4] \in 127..255
    /\ \A k \in 1..Len(apng_obj) : \A d \in Dots :
          apng_obj[k].png.ellipse[d].fill[4] \in 127..255
C7_Witness ==
    /\ Len(apng_obj) = 45
    /\ \E k \in Drawn : drawn[k].alpha[0] = 170 /\ apng_obj[k].png.ellipse[0].fill[4] = 170
    /\ \E k \in Drawn : drawn[k].alpha[2] = 127 /\ apng_obj[k].png.ellipse[2].fill[4] = 127

\* C8: generate_apng writes the temporary files of frames 0, 1, ... in that order,
\* appends them to the APNG in the same order, saves the output file before it
\* removes any temporary file, and ends with every temporary file removed and the
\* output file in place
C8_TempFilesInOrder ==
    /\ \A k \in 1..Len(frame_files) :
          /\ frame_files[k] = temp_path(k - 1)
          /\ io[k] = [op |-> "save", path |-> temp_path(k - 1)]
    /\ \A k \in 1..Len(apng_obj) :
          io[Len(frame_files) + k] = [op |-> "read", path |-> frame_files[k]]
    /\ \A r \in 1..Len(io) :
          io[r].op = "remove" =>
             \E w \in 1..(r - 1) : io[w] = [op |-> "save", path |-> output_file]
                                   /\ w > 2 * Len(frame_files)
    /\ pc = "done" =>
          /\ Len(frame_files) = TOTAL_FRAMES
          /\ \A k \in 1..Len(frame_files) : frame_files[k] \notin DOMAIN fs
          /\ output_file \in DOMAIN fs

====
